---- MODULE Spec2Model ----
(***************************************************************************)
(* Model of the manual multi-optimizer training scheduler of               *)
(* HailMary (src/models/hail_mary.py).                                     *)
(*                                                                         *)
(* One training_step call is one action.  Each method of the source is an  *)
(* operator that yields the list of statements the method executes, in     *)
(* program order, for the state s the call was entered in (every branch    *)
(* condition of the source is decided by the configuration and by s).      *)
(* Run executes such a list statement by statement on a record m of the    *)
(* attributes a call can change; a statement that raises ends the call,    *)
(* which is how Python abandons the rest of it, and what was changed up    *)
(* to there stays changed.                                                 *)
(*                                                                         *)
(* A value of a loss dictionary is the exact fraction <<num, den>>: a loss  *)
(* term adds an integer to it, the division by accumulate_grad_batches     *)
(* multiplies den, a reset makes it <<0, 1>>.  The per-modality weighting  *)
(* factors of the generator loss are taken as 1.                           *)
(*                                                                         *)
(* The datasets of src/data/image_dataset.py are a second state machine,   *)
(* SpecDataset, on the variable data: one __getitem__ call is one action,  *)
(* and what rng.permutation draws is any permutation.                      *)
(***************************************************************************)
EXTENDS Integers, Sequences, FiniteSets, TLC

\* ---------------------------------------------------------------- bounds
MaxCalls == 10           \* training_step calls explored per run
MaxN == 2                \* largest accumulate_grad_batches tried
MaxW == 2                \* largest wasserstein_critic_updates tried
NumFeatureLevels == 3    \* len(generator.feature_levels)
NumReferenceSources == 2 \* len(texture_generator.sources)
MaxFiles == 3            \* largest len(dataset) tried
MaxLength == 4           \* largest length an EndlessDataset is configured with

\* the values a loss term takes on one batch
LossVals == {1, 2}

VARIABLES
    config,                  \* gan_config / depth_norm_config switches and knobs
    phong_renderer,          \* self.phong_renderer: "None" or "PhongRender"
    generator_losses,        \* self.generator_losses (shared with the texture generator)
    discriminator_losses,    \* self.discriminator_losses (shared with the texture generator)
    critic_losses,           \* self.critic_losses
    texture_critic_losses,   \* self.texture_generator.critic_losses
    generator_global_step,
    critic_global_step,
    total_train_step_count,
    batches_accumulated,
    full_batch,              \* self._full_batch
    generator_training,      \* self._generator_training
    mode,                    \* the training flag of the sub-networks
    gradients,               \* phases whose backward passes left gradients not yet cleared
    raised,                  \* exception that ended the run, "none" while it lives
    lastCall,                \* what the most recent training_step call did
    calls,                   \* number of training_step calls made
    callsInPhase,            \* calls returned since the phase last changed
    sinceFlush,              \* per dictionary and key: sum added since its last flush
    data                     \* an EndlessDataset or ImageDataset and its last __getitem__

modelVars == <<config, phong_renderer, generator_losses, discriminator_losses,
               critic_losses, texture_critic_losses, generator_global_step,
               critic_global_step, total_train_step_count, batches_accumulated,
               full_batch, generator_training, mode, gradients, raised, lastCall,
               calls, callsInPhase, sinceFlush>>

vars == <<modelVars, data>>

\* ------------------------------------------------------------ configuration
\* tex_own_losses: the names the texture generator's generator_losses
\* holds when it comes out of its constructor
ConfigsWith(own, resume) ==
    [use_critic : BOOLEAN, use_discriminator : BOOLEAN,
     use_feature_level : BOOLEAN, predict_normals : BOOLEAN,
     tex_use_critic : BOOLEAN, tex_use_discriminator : BOOLEAN,
     tex_own_losses : own,
     resume_from_checkpoint : resume,
     num_sources : {0, NumReferenceSources},
     accumulate_grad_batches : (-1)..MaxN,
     wasserstein_critic_updates : 1..MaxW]

\* a texture generator that brings no loss name of its own
\* and that is not resumed from a checkpoint
Configs == ConfigsWith({{}}, {FALSE})

\* a texture generator that brings a total of its own under the name the
\* outer model uses for its total
CollidingConfigs == ConfigsWith({{"g_loss"}}, {FALSE})

\* gan_config.resume_from_checkpoint set
ResumedConfigs == ConfigsWith({{}}, {TRUE})

\* self.generated_source_id = len(self.texture_generator.sources)
generated_source_id == config.num_sources

\* the keys of a batch: the reference sources and the generated source
SourceIds == 0..generated_source_id

\* the orders in which a batch mapping can hold its keys
BatchOrders ==
    {o \in [1..Cardinality(SourceIds) -> SourceIds] :
        \A a, b \in 1..Cardinality(SourceIds) : a # b => o[a] # o[b]}

\* the order with the reference sources first and the generated source last
AscendingOrder == [i \in 1..Cardinality(SourceIds) |-> i - 1]

\* an entry of batch[generated_source_id]: a tensor, named by what it holds
\* and the training_step call (total_train_step_count) that computed it;
\* the images come from the data loader, before any call
Entry(name, call) == [name |-> name, call |-> call]

\* batch[generated_source_id] of a batch from the data loader: the images
FreshBatch == <<Entry("images", -1)>>

\* one batch: what the loss functions return on it (the loss, and the
\* regularisation or gradient penalty), the order of its keys and the list
\* of its generated source
Inputs ==
    [loss : LossVals, penalty : {1}, order : {AscendingOrder},
     generated : {FreshBatch}]

\* batches with the keys in any order (one loss value: the order is what
\* varies)
AnyOrderInputs ==
    [loss : {1}, penalty : {1}, order : BatchOrders, generated : {FreshBatch}]

\* d_in_shapes[:-1]: one feature head per encoder stage but the last of the
\* reversed list
FeatureCount == NumFeatureLevels - 1

FeatureIdx == 0..(FeatureCount - 1)

\* fractions <<num, den>>: the float values of the loss dictionaries
RatAdd(q, v) == <<q[1] + v * q[2], q[2]>>

RatDiv(q, n) == <<q[1], q[2] * n>>

RatEq(a, b) == a[1] * b[2] = b[1] * a[2]

\* {k: 0.0 for k in keys}
Zeroed(keys) == [k \in keys |-> <<0, 1>>]

\* ------------------------------------------------------------------- setup
\* keys of the ModuleDict self.discriminators after __init__
DiscriminatorKeys(cfg) ==
    IF cfg.use_discriminator
    THEN (IF cfg.use_feature_level THEN {"features"} ELSE {})
         \cup (IF cfg.predict_normals THEN {"phong", "depth_phong", "normals"} ELSE {})
         \cup {"depth_image"}
    ELSE {}

\* keys of the ModuleDict self.critics after __init__
CriticKeys(cfg) ==
    IF cfg.use_critic
    THEN (IF cfg.use_feature_level THEN {"features"} ELSE {})
         \cup (IF cfg.predict_normals THEN {"phong", "depth_phong", "normals"} ELSE {})
         \cup {"depth_image"}
    ELSE {}

\* len(self.discriminators['features']) / len(self.critics['features'])
FeatureHeads(keys) == IF "features" \in keys THEN FeatureCount ELSE 0

\* names setup_discriminators registers in self.discriminator_losses
SetupDiscriminatorsDLosses(cfg) ==
    {"d_discriminators_loss"}
    \cup (IF cfg.use_feature_level
          THEN {"d_loss_discriminator_feature_" \o ToString(i) : i \in FeatureIdx}
               \cup {"d_loss_reg_discriminator_feature_" \o ToString(i) : i \in FeatureIdx}
          ELSE {})
    \cup (IF cfg.predict_normals
          THEN {"d_loss_discriminator_phong", "d_loss_discriminator_depth_phong",
                "d_loss_discriminator_normals", "d_loss_reg_discriminator_phong",
                "d_loss_reg_discriminator_depth_phong", "d_loss_reg_discriminator_normals"}
          ELSE {})
    \cup {"d_loss_discriminator_depth_img", "d_loss_reg_discriminator_depth_img"}

\* names setup_discriminators registers in self.generator_losses
SetupDiscriminatorsGLosses(cfg) ==
    (IF cfg.use_feature_level
     THEN {"g_loss_discriminator_feature_" \o ToString(i) : i \in FeatureIdx}
     ELSE {})
    \cup (IF cfg.predict_normals
          THEN {"g_loss_discriminator_phong", "g_loss_discriminator_depth_phong",
                "g_loss_discriminator_normals"}
          ELSE {})
    \cup {"g_loss_discriminator_depth_img"}

\* names setup_critics registers in self.critic_losses
SetupCriticsCLosses(cfg) ==
    {"d_critics_loss"}
    \cup (IF cfg.use_feature_level
          THEN {"d_loss_critic_feature_" \o ToString(i) : i \in FeatureIdx}
               \cup {"d_loss_critic_gp_feature_" \o ToString(i) : i \in FeatureIdx}
          ELSE {})
    \cup (IF cfg.predict_normals
          THEN {"d_loss_critic_phong", "d_loss_critic_depth_phong", "d_loss_critic_normals",
                "d_loss_critic_gp_phong", "d_loss_critic_gp_depth_phong",
                "d_loss_critic_gp_normals"}
          ELSE {})
    \cup {"d_loss_critic_depth_img", "d_loss_critic_gp_depth_img"}

\* names setup_critics registers in self.generator_losses
SetupCriticsGLosses(cfg) ==
    (IF cfg.use_feature_level
     THEN {"g_loss_critic_feature_" \o ToString(i) : i \in FeatureIdx}
     ELSE {})
    \cup (IF cfg.predict_normals
          THEN {"g_loss_critic_phong", "g_loss_critic_depth_phong", "g_loss_critic_normals"}
          ELSE {})
    \cup {"g_loss_critic_depth_img"}

\* names setup_texture_generator registers in the texture generator's dictionaries
TexGeneratorLossNames(cfg) ==
    cfg.tex_own_losses
    \cup (IF cfg.tex_use_discriminator
          THEN {"g_discriminator_loss-" \o ToString(generated_source_id)} ELSE {})
    \cup (IF cfg.tex_use_critic
          THEN {"g_critic_loss-" \o ToString(generated_source_id)} ELSE {})

TexDiscriminatorLossNames(cfg) ==
    IF cfg.tex_use_discriminator
    THEN {"d_discriminator_loss-" \o ToString(generated_source_id),
          "d_discriminator_reg_loss-" \o ToString(generated_source_id)}
    ELSE {}

TexCriticLossNames(cfg) ==
    IF cfg.tex_use_critic
    THEN {"d_critic_loss-" \o ToString(generated_source_id),
          "d_critic_gp-" \o ToString(generated_source_id)}
    ELSE {}

\* d.update(e): every entry of e is written into d, over an entry of the
\* same name if there is one
Update(d, e) ==
    [k \in DOMAIN d \cup DOMAIN e |-> IF k \in DOMAIN e THEN e[k] ELSE d[k]]

\* the names of self.generator_losses before the texture generator's are
\* merged in (line 56, setup_critics, setup_discriminators)
OuterGeneratorLossNames(cfg) ==
    {"g_loss"}
    \cup (IF cfg.use_critic THEN SetupCriticsGLosses(cfg) ELSE {})
    \cup (IF cfg.use_discriminator THEN SetupDiscriminatorsGLosses(cfg) ELSE {})

\* the names of self.discriminator_losses before the merge
OuterDiscriminatorLossNames(cfg) ==
    IF cfg.use_discriminator THEN SetupDiscriminatorsDLosses(cfg) ELSE {}

\* self.generator_losses after __init__ (line 56, setup_critics,
\* setup_discriminators, then the update with the texture generator's names)
InitGeneratorLosses(cfg) ==
    Update(Zeroed(OuterGeneratorLossNames(cfg)), Zeroed(TexGeneratorLossNames(cfg)))

\* self.discriminator_losses after __init__
InitDiscriminatorLosses(cfg) ==
    Update(Zeroed(OuterDiscriminatorLossNames(cfg)),
           Zeroed(TexDiscriminatorLossNames(cfg)))

\* self.critic_losses after __init__
InitCriticLosses(cfg) ==
    Zeroed(IF cfg.use_critic THEN SetupCriticsCLosses(cfg) ELSE {})

\* self.texture_generator.critic_losses after __init__
InitTextureCriticLosses(cfg) == Zeroed(TexCriticLossNames(cfg))

\* self._unwrapped_optimizers after __init__, by the group each optimizer trains
Optimizers(cfg) ==
    <<"generator">>
    \o (IF cfg.use_critic THEN <<"critic">> ELSE <<>>)
    \o (IF cfg.use_discriminator THEN <<"discriminator">> ELSE <<>>)
    \o <<"texture_generator">>
    \o (IF cfg.tex_use_critic THEN <<"texture_critic">> ELSE <<>>)
    \o (IF cfg.tex_use_discriminator THEN <<"texture_discriminator">> ELSE <<>>)

\* the named indices (0-based list positions, as in the source)
critic_opt_idx(cfg) == IF cfg.use_critic THEN 1 ELSE 0

\* the index the discriminators would have were they appended before the critics
discriminators_opt_idx_First(cfg) == IF cfg.use_discriminator THEN 1 ELSE 0

discriminators_opt_idx(cfg) ==
    IF cfg.use_discriminator THEN critic_opt_idx(cfg) + 1 ELSE 0

\* a literal position for the texture generator's generator
texture_generator_opt_idx_Literal(cfg) == 1

\* len(self._unwrapped_optimizers) before the texture generator's are appended
texture_generator_opt_idx(cfg) ==
    Len(<<"generator">>
        \o (IF cfg.use_critic THEN <<"critic">> ELSE <<>>)
        \o (IF cfg.use_discriminator THEN <<"discriminator">> ELSE <<>>))

\* a texture critic index that does not ask whether there is a texture critic
texture_critic_opt_idx_Always(cfg) == texture_generator_opt_idx(cfg) + 1

texture_critic_opt_idx(cfg) ==
    IF cfg.tex_use_critic THEN texture_generator_opt_idx(cfg) + 1
    ELSE texture_generator_opt_idx(cfg)

texture_discriminator_opt_idx(cfg) == texture_critic_opt_idx(cfg) + 1

\* ------------------------------------------------- the state of one call
\* the attributes a call can change, as one record
Self ==
    [generator_losses |-> generator_losses,
     discriminator_losses |-> discriminator_losses,
     critic_losses |-> critic_losses,
     texture_critic_losses |-> texture_critic_losses,
     generator_global_step |-> generator_global_step,
     critic_global_step |-> critic_global_step,
     total_train_step_count |-> total_train_step_count,
     batches_accumulated |-> batches_accumulated,
     full_batch |-> full_batch,
     generator_training |-> generator_training,
     mode |-> mode,
     gradients |-> gradients,
     applied |-> {},
     heads |-> {},
     batch |-> <<>>,
     received |-> <<>>,
     modes |-> <<>>,
     predictions |-> <<>>,
     raised |-> "none",
     local |-> 0,
     trace |-> <<>>,
     flushed |-> {},
     logged |-> [generator_losses |-> <<>>, discriminator_losses |-> <<>>,
                 critic_losses |-> <<>>]]

\* one statement
I(op, tgt, key, val) == [op |-> op, tgt |-> tgt, key |-> key, val |-> val]

\* the sub-networks whose training flag the scheduler sets, and the
\* batch-normalization layers of the baseline depth model
Networks == {"generator", "discriminators", "critics", "depth_model_batchnorm"}

\* self.train() / self.eval()
AllInMode(md) == [n \in Networks |-> md]

\* module.apply(freeze_batchnorm): the batch-normalization layers of the
\* module go to evaluation mode
freeze_batchnorm(md, module) ==
    IF module = "depth_model" THEN [md EXCEPT !["depth_model_batchnorm"] = "eval"]
    ELSE md

\* an accumulation that creates the entry it does not find
Accumulate_Creating(m, tgt, key, v) ==
    [m EXCEPT ![tgt] = [k \in DOMAIN @ \cup {key} |->
                            IF k \in DOMAIN @ /\ k # key THEN @[k]
                            ELSE IF k \in DOMAIN @ THEN RatAdd(@[k], v)
                            ELSE <<v, 1>>],
              !.trace = Append(@, I("acc", tgt, key, v))]

\* d[key] += v.detach(): the read of d[key] raises KeyError when key is not
\* in d, before anything is assigned
Accumulate(m, tgt, key, v) ==
    IF key \in DOMAIN m[tgt]
    THEN [m EXCEPT ![tgt][key] = RatAdd(@, v),
                   !.trace = Append(@, I("acc", tgt, key, v))]
    ELSE [m EXCEPT !.raised = "KeyError",
                   !.trace = Append(@, I("KeyError", tgt, key, 0))]

\* the effect of one statement on m
Exec(m, ins) ==
    LET done == [m EXCEPT !.trace = Append(@, ins)]
        N == config.accumulate_grad_batches
    IN  CASE ins.op = "acc" -> Accumulate(m, ins.tgt, ins.key, ins.val)
          [] ins.op = "acc_local" ->
                \* d[key] += loss.detach(), loss the local sum of the step
                Accumulate(m, ins.tgt, ins.key, m.local)
          [] ins.op = "forward" /\ ins.key = "results" ->
                \* results[source_id] = {...} with what self(z, generator=...)
                \* returns: a new record, or a record in place of the old one
                [done EXCEPT !.modes = Append(@, [at |-> ins.op, mode |-> m.mode]),
                             !.predictions =
                                [k \in DOMAIN @ \cup {ins.val} |->
                                    IF k = ins.val
                                    THEN [encoder |-> ins.tgt,
                                          fields |-> {"color", "encoder_outs",
                                                      "depth", "normals"}]
                                    ELSE @[k]]]
          [] ins.op = "forward" ->
                \* the modes the networks are in while it runs are noted
                [done EXCEPT !.modes = Append(@, [at |-> ins.op, mode |-> m.mode])]
          [] ins.op = "backward" ->
                \* self.manual_backward(loss) adds to the gradients
                [done EXCEPT !.modes = Append(@, [at |-> ins.op, mode |-> m.mode]),
                             !.gradients =
                                @ \cup {IF m.generator_training THEN "GEN" ELSE "DISC"}]
          [] ins.op = "zero_grad" /\ ins.tgt = "model" ->
                \* self.zero_grad(): the gradients of every parameter are cleared
                [done EXCEPT !.gradients = {}]
          [] ins.op \in {"train", "eval"} ->
                \* module.train() / module.eval(); self is the whole model
                [m EXCEPT !.mode = IF ins.tgt = "self" THEN AllInMode(ins.op)
                                   ELSE [@ EXCEPT ![ins.tgt] = ins.op]]
          [] ins.op = "freeze_batchnorm" ->
                [m EXCEPT !.mode = freeze_batchnorm(@, ins.tgt)]
          [] ins.op = "cat" ->
                \* torch.cat(list, dim=0): a RuntimeError on an empty list
                IF ins.val = 0 THEN [m EXCEPT !.raised = "RuntimeError"] ELSE done
          [] ins.op = "add_local" -> [m EXCEPT !.local = @ + ins.val]
          [] ins.op = "clear_local" -> [m EXCEPT !.local = 0]
          [] ins.op = "lookup" ->
                \* self.discriminators[key] / self.critics[key]
                IF ins.key \in (IF ins.tgt = "critics" THEN CriticKeys(config)
                                ELSE DiscriminatorKeys(config))
                THEN [m EXCEPT !.heads = @ \cup {<<ins.tgt, ins.key>>}]
                ELSE [m EXCEPT !.heads = @ \cup {<<ins.tgt, ins.key>>},
                               !.raised = "KeyError"]
          [] ins.op = "phong" ->
                \* self.phong_renderer(...): calling None is a TypeError
                IF phong_renderer = "None" THEN [m EXCEPT !.raised = "TypeError"]
                ELSE IF ins.key = "results"
                THEN [m EXCEPT !.predictions[ins.val].fields =
                                    @ \cup {"phong", "calculated_phong"}]
                ELSE m
          [] ins.op \in {"step", "zero_grad"} /\ ins.tgt = "optimizer" ->
                \* optimizers[idx].step() / .zero_grad()
                IF ins.val + 1 > Len(Optimizers(config))
                THEN [m EXCEPT !.raised = "IndexError"]
                ELSE [m EXCEPT !.trace =
                        Append(@, I(ins.op, ins.tgt, Optimizers(config)[ins.val + 1],
                                    ins.val)),
                               \* a step applies the gradients that are there
                               !.applied = IF ins.op = "step" THEN @ \cup m.gradients
                                           ELSE @]
          [] ins.op = "divide" ->
                \* d.update({k: d[k] / accumulate_grad_batches for k in d})
                IF N = 0 /\ DOMAIN m[ins.tgt] # {}
                THEN [m EXCEPT !.raised = "ZeroDivisionError"]
                ELSE [done EXCEPT ![ins.tgt] = [k \in DOMAIN @ |-> RatDiv(@[k], N)]]
          [] ins.op = "critic_update" ->
                \* self.critic_losses.update({k: texture critic_losses[k] / N})
                IF N = 0 /\ DOMAIN m.texture_critic_losses # {}
                THEN [m EXCEPT !.raised = "ZeroDivisionError"]
                ELSE LET T == DOMAIN m.texture_critic_losses
                     IN  [done EXCEPT !.critic_losses =
                             [k \in DOMAIN @ \cup T |->
                                 IF k \in T THEN RatDiv(m.texture_critic_losses[k], N)
                                 ELSE @[k]]]
          [] ins.op = "log" ->
                \* self.log_dict(d)
                [done EXCEPT !.logged[ins.tgt] = m[ins.tgt],
                             !.flushed = @ \cup {ins.tgt}]
          [] ins.op = "reset" ->
                \* reset_log_dict(d): every key back to 0.0
                [done EXCEPT ![ins.tgt] = Zeroed(DOMAIN @)]
          [] ins.op = "inc" -> [done EXCEPT ![ins.tgt] = @ + 1]
          [] ins.op = "extend" ->
                \* batch[self.generated_source_id].extend([depth, normals]),
                \* in the discriminator/critic step (val = 3) only if the
                \* list does not have three entries already
                IF ins.val # 0 /\ Len(m.batch) = ins.val THEN m
                ELSE [m EXCEPT !.batch =
                        @ \o <<Entry("depth", m.total_train_step_count),
                               Entry("normals", m.total_train_step_count)>>]
          [] ins.op = "texture" ->
                \* self.texture_generator.calculate_*_loss(batch)
                [m EXCEPT !.received = Append(@, m.batch)]
          [] ins.op = "phase" -> [done EXCEPT !.generator_training = (ins.tgt = "GEN")]
          [] ins.op = "full_batch_false" -> [m EXCEPT !.full_batch = FALSE]
          [] ins.op = "raise" -> [m EXCEPT !.raised = ins.tgt]
          [] OTHER -> done

RECURSIVE Run(_, _, _)
Run(m, prog, i) ==
    IF i > Len(prog) \/ m.raised # "none" THEN m
    ELSE Run(Exec(m, prog[i]), prog, i + 1)

\* the statements of a loop, one element of ss per iteration
RECURSIVE Flatten(_)
Flatten(ss) == IF ss = <<>> THEN <<>> ELSE Head(ss) \o Flatten(Tail(ss))

\* ------------------------------------------------ texture sub-trainer
\* The texture generator accumulates into its own dictionaries;
\* its generator and discriminator dictionaries are the outer ones
\* (__init__ lines 72-73), its critic dictionary is its own.
TexName(prefix) == prefix \o ToString(generated_source_id)

TexCalculateGeneratorLoss(in) ==
    (IF config.tex_use_discriminator
     THEN <<I("acc", "generator_losses", TexName("g_discriminator_loss-"), in.loss),
            I("add_local", "", "", in.loss)>>
     ELSE <<>>)
    \o (IF config.tex_use_critic
        THEN <<I("acc", "generator_losses", TexName("g_critic_loss-"), in.loss),
               I("add_local", "", "", in.loss)>>
        ELSE <<>>)

TexCalculateCriticLoss(in) ==
    <<I("acc", "texture_critic_losses", TexName("d_critic_loss-"), in.loss),
      I("acc", "texture_critic_losses", TexName("d_critic_gp-"), in.penalty)>>

TexCalculateDiscriminatorLoss(in) ==
    <<I("acc", "discriminator_losses", TexName("d_discriminator_loss-"), in.loss),
      I("acc", "discriminator_losses", TexName("d_discriminator_reg_loss-"), in.penalty)>>

\* ------------------------------------------------------ predictions
\* an encoder choice that takes the generator for every source
get_predictions_Generator(generator) == "generator"

\* lines 245-248: the encoder the predictions are computed with
get_predictions(generator) ==
    IF generator THEN "generator" ELSE "depth_model.encoder"

\* lines 436-452: for every source id of the batch, in the order of the
\* mapping, the prediction and its two Phong renderings
get_discriminator_critic_inputs(in) ==
    Flatten([i \in 1..Len(in.order) |->
        <<I("forward", get_predictions(in.order[i] = generated_source_id),
            "results", in.order[i]),
          I("phong", "", "results", in.order[i])>>])

\* ------------------------------------------------------ loss helpers
_apply_generator_discriminator_loss(module, name, in) ==
    <<I("lookup", "discriminators", module, 0),
      I("acc", "generator_losses", "g_loss_" \o name, in.loss),
      I("add_local", "", "", in.loss)>>

_apply_generator_critic_loss(module, name, in) ==
    <<I("lookup", "critics", module, 0),
      I("acc", "generator_losses", "g_loss_critic_" \o name, in.loss),
      I("acc", "generator_losses", "g_loss_critic_gp_" \o name, in.penalty),
      I("add_local", "", "", in.loss + in.penalty)>>

\* one call of the loss function on the generated and one on the original data
_apply_discriminator_loss(module, name, in) ==
    <<I("lookup", "discriminators", module, 0),
      I("acc", "discriminator_losses", "d_loss_discriminator_" \o name, in.loss + in.loss),
      I("acc", "discriminator_losses", "d_loss_reg_discriminator_" \o name,
        in.penalty + in.penalty),
      I("add_local", "", "", in.loss + in.loss + in.penalty + in.penalty)>>

_apply_critic_loss(module, name, in) ==
    <<I("lookup", "critics", module, 0),
      I("acc", "critic_losses", "d_loss_critic_" \o name, in.loss),
      I("acc", "critic_losses", "d_loss_critic_gp_" \o name, in.penalty),
      I("add_local", "", "", in.loss + in.penalty)>>

\* for source_id in predictions: if source_id == self.generated_source_id:
\* break; ...append(predictions[source_id][...]): the sources collected
\* for the original term, in the order of the mapping
RECURSIVE Originals(_)
Originals(order) ==
    IF order = <<>> \/ Head(order) = generated_source_id THEN <<>>
    ELSE <<Head(order)>> \o Originals(Tail(order))

\* a list of source ids as a number, bit id set for every id in the list
RECURSIVE Mask(_)
Mask(ids) == IF ids = <<>> THEN 0 ELSE 2 ^ Head(ids) + Mask(Tail(ids))

\* torch.cat of the collected originals
CatOriginals(in) == <<I("cat", "original", "", Mask(Originals(in.order)))>>

\* _discriminators(predictions): the summed discriminator loss
_discriminators(in) ==
    LET feature(idx) == _apply_discriminator_loss("features", "feature_" \o ToString(idx), in)
    IN  CatOriginals(in)
        \o _apply_discriminator_loss("depth_image", "depth_img", in)
        \o (IF config.use_feature_level
            THEN <<I("lookup", "discriminators", "features", 0)>>
                 \o Flatten([j \in 1..FeatureHeads(DiscriminatorKeys(config)) |-> feature(j - 1)])
            ELSE <<>>)
        \o _apply_discriminator_loss("phong", "phong", in)
        \o _apply_discriminator_loss("depth_phong", "depth_phong", in)

\* _critics(predictions): the summed critic loss
_critics(in) ==
    LET feature(idx) == _apply_critic_loss("features", "feature_" \o ToString(idx), in)
    IN  CatOriginals(in)
        \o _apply_critic_loss("depth_image", "depth_img", in)
        \o (IF config.use_feature_level
            THEN <<I("lookup", "critics", "features", 0)>>
                 \o Flatten([j \in 1..FeatureHeads(CriticKeys(config)) |-> feature(j - 1)])
            ELSE <<>>)
        \o _apply_critic_loss("phong", "phong", in)
        \o _apply_critic_loss("depth_phong", "depth_phong", in)

\* ------------------------------------------------------ generator step
\* lines 301-315: the generator's loss against every discriminator head
GeneratorDiscriminatorLosses(in) ==
    LET feature(idx) == _apply_generator_discriminator_loss(
                            "features", "discriminator_feature_" \o ToString(idx), in)
    IN  (IF config.use_feature_level
         THEN <<I("lookup", "discriminators", "features", 0)>>
              \o Flatten([j \in 1..FeatureHeads(DiscriminatorKeys(config)) |-> feature(j - 1)])
         ELSE <<>>)
        \o _apply_generator_discriminator_loss("depth_image", "discriminator_depth_img", in)
        \o _apply_generator_discriminator_loss("phong", "discriminator_phong", in)
        \o _apply_generator_discriminator_loss("depth_phong", "discriminator_depth_phong", in)

\* lines 317-333: the generator's loss against every critic head
GeneratorCriticLosses(in) ==
    LET feature(idx) == _apply_generator_critic_loss(
                            "features", "critic_feature_" \o ToString(idx), in)
    IN  (IF config.use_feature_level
         THEN <<I("lookup", "critics", "features", 0)>>
              \o Flatten([j \in 1..FeatureHeads(CriticKeys(config)) |-> feature(j - 1)])
         ELSE <<>>)
        \o _apply_generator_critic_loss("depth_image", "critic_depth_img", in)
        \o _apply_generator_critic_loss("phong", "critic_phong", in)
        \o _apply_generator_critic_loss("depth_phong", "critic_depth_phong", in)

\* a throttle that counts the discriminator networks, every feature head
\* for itself
GeneratorThrottle_Networks(step) ==
    LET keys == DiscriminatorKeys(config)
        n == Cardinality(keys \ {"features"}) + FeatureHeads(keys)
    IN  IF n = 0 THEN "raise"
        ELSE IF (step + 1) % n # 0 THEN "skip" ELSE "apply"

\* a throttle that lets every full-batch generator call through
GeneratorThrottle_Always(step) ==
    IF Cardinality(DiscriminatorKeys(config)) = 0 THEN "raise" ELSE "apply"

\* line 344: (self.generator_global_step + 1) % len(self.discriminators) != 0
\* with generator_global_step = step; "raise" when the modulo divides by zero
GeneratorThrottle(step) ==
    LET n == Cardinality(DiscriminatorKeys(config))
    IN  IF n = 0 THEN "raise"
        ELSE IF (step + 1) % n # 0 THEN "skip" ELSE "apply"

\* a flush that logs the sums undivided
FlushAndLog_NoDivide(dict) ==
    <<I("log", dict, "", 0), I("reset", dict, "", 0)>>

\* the three lines that flush the generator or the discriminator group
FlushAndLog(dict) ==
    <<I("divide", dict, "", 0), I("log", dict, "", 0), I("reset", dict, "", 0)>>

\* lines 346-353: step and clear the two generator optimizers, flush the log
GeneratorApply ==
    <<I("step", "optimizer", "", 0),
      I("step", "optimizer", "", texture_generator_opt_idx(config)),
      I("zero_grad", "optimizer", "", 0),
      I("zero_grad", "optimizer", "", texture_generator_opt_idx(config))>>
    \o FlushAndLog("generator_losses")

\* a generator step that leaves the phase alone until the throttle lets the
\* optimizers step
GeneratorFullBatch_Gated(s) ==
    LET t == GeneratorThrottle(s.generator_global_step + 1)
    IN  <<I("inc", "generator_global_step", "", 0)>>
        \o (IF t = "raise" THEN <<I("raise", "ZeroDivisionError", "", 0)>>
            ELSE IF t = "skip" THEN <<>>
            ELSE <<I("phase", "DISC", "", 0)>> \o GeneratorApply)

\* lines 341-353: what a full-batch generator call does after the backward pass
GeneratorFullBatch(s) ==
    LET t == GeneratorThrottle(s.generator_global_step + 1)
    IN  <<I("inc", "generator_global_step", "", 0), I("phase", "DISC", "", 0)>>
        \o (IF t = "raise" THEN <<I("raise", "ZeroDivisionError", "", 0)>>
            ELSE IF t = "skip" THEN <<>>
            ELSE GeneratorApply)

\* the batch as the texture sub-trainer is given it (lines 336, 394, 404)
PassBatch(method) == <<I("texture", method, "", 0)>>

\* line 335
ExtendBatch == <<I("extend", "batch", "", 0)>>

\* a generator step that leaves the discriminators and critics as they are
GeneratorModes_None == <<>>

\* lines 285-286
GeneratorModes ==
    <<I("eval", "discriminators", "", 0), I("eval", "critics", "", 0)>>

generator_train_step(s, in) ==
    GeneratorModes
    \o <<I("forward", get_predictions(TRUE), "", generated_source_id),
         I("phong", "", "", 0)>>
    \o (IF config.use_discriminator THEN GeneratorDiscriminatorLosses(in) ELSE <<>>)
    \o (IF config.use_critic THEN GeneratorCriticLosses(in) ELSE <<>>)
    \o ExtendBatch
    \o PassBatch("calculate_generator_loss")
    \o TexCalculateGeneratorLoss(in)
    \o <<I("backward", "g_loss", "", 0),
         I("acc_local", "generator_losses", "g_loss", 0)>>
    \o (IF s.full_batch THEN GeneratorFullBatch(s) ELSE <<>>)

\* ------------------------------------------- discriminator / critic step
\* a step that is not followed by a clear
StepAndClear_NoClear(idx) == <<I("step", "optimizer", "", idx)>>

\* o = optimizers[idx]; o.step(); o.zero_grad()
StepAndClear(idx) ==
    <<I("step", "optimizer", "", idx), I("zero_grad", "optimizer", "", idx)>>

\* line 362
first_of_mini_batches(s) ==
    s.critic_global_step % config.wasserstein_critic_updates = 0

\* lines 363-364
last_mini_batch(s) ==
    IF config.use_critic
    THEN (s.critic_global_step + 1) % config.wasserstein_critic_updates = 0
    ELSE TRUE

\* a discriminator part that steps the optimizer before the loss is computed
DiscriminatorPart_StepFirst(s, in) ==
    (IF s.full_batch THEN StepAndClear(discriminators_opt_idx(config)) ELSE <<>>)
    \o <<I("clear_local", "", "", 0)>>
    \o _discriminators(in)
    \o <<I("backward", "discriminator_loss", "", 0),
         I("acc_local", "discriminator_losses", "d_discriminators_loss", 0)>>

\* lines 366-375
DiscriminatorPart(s, in) ==
    <<I("clear_local", "", "", 0)>>
    \o _discriminators(in)
    \o <<I("backward", "discriminator_loss", "", 0),
         I("acc_local", "discriminator_losses", "d_discriminators_loss", 0)>>
    \o (IF s.full_batch THEN StepAndClear(discriminators_opt_idx(config)) ELSE <<>>)

\* lines 377-387
CriticPart(s, in) ==
    <<I("clear_local", "", "", 0)>>
    \o _critics(in)
    \o <<I("backward", "critic_loss", "", 0),
         I("acc_local", "discriminator_losses", "d_critics_loss", 0)>>
    \o (IF s.full_batch
        THEN StepAndClear(critic_opt_idx(config))
             \o <<I("inc", "critic_global_step", "", 0)>>
        ELSE <<>>)

\* a texture critic part that counts every call, full batch or not
TextureCriticPart_EveryCall(s, in) ==
    PassBatch("calculate_critic_loss")
    \o TexCalculateCriticLoss(in)
    \o <<I("backward", "texture_critic_loss", "", 0)>>
    \o (IF s.full_batch THEN StepAndClear(texture_critic_opt_idx(config)) ELSE <<>>)
    \o (IF ~config.use_critic THEN <<I("inc", "critic_global_step", "", 0)>> ELSE <<>>)

\* a texture critic part that computes its loss only on the full batch
TextureCriticPart_FullBatchOnly(s, in) ==
    IF s.full_batch
    THEN PassBatch("calculate_critic_loss")
         \o TexCalculateCriticLoss(in)
         \o <<I("backward", "texture_critic_loss", "", 0)>>
         \o StepAndClear(texture_critic_opt_idx(config))
         \o (IF ~config.use_critic
             THEN <<I("inc", "critic_global_step", "", 0)>> ELSE <<>>)
    ELSE <<>>

\* lines 393-401
TextureCriticPart(s, in) ==
    PassBatch("calculate_critic_loss")
    \o TexCalculateCriticLoss(in)
    \o <<I("backward", "texture_critic_loss", "", 0)>>
    \o (IF s.full_batch
        THEN StepAndClear(texture_critic_opt_idx(config))
             \o (IF ~config.use_critic
                 THEN <<I("inc", "critic_global_step", "", 0)>> ELSE <<>>)
        ELSE <<>>)

\* lines 403-409
TextureDiscriminatorPart(s, in) ==
    PassBatch("calculate_discriminator_loss")
    \o TexCalculateDiscriminatorLoss(in)
    \o <<I("backward", "texture_discriminator_loss", "", 0)>>
    \o (IF s.full_batch THEN StepAndClear(texture_discriminator_opt_idx(config)) ELSE <<>>)

\* lines 413-417: the texture generator's critic entries, divided, are copied
\* into self.critic_losses, which is then logged and reset
CriticFlush ==
    <<I("critic_update", "critic_losses", "", 0), I("log", "critic_losses", "", 0),
      I("reset", "critic_losses", "", 0)>>

\* lines 411-426: the end of a full-batch discriminator/critic call
DiscriminatorFullBatch(s) ==
    (IF config.tex_use_critic \/ config.use_critic THEN CriticFlush ELSE <<>>)
    \o (IF first_of_mini_batches(s)
           /\ (config.tex_use_discriminator \/ config.use_discriminator)
        THEN FlushAndLog("discriminator_losses") ELSE <<>>)
    \o (IF last_mini_batch(s) THEN <<I("phase", "GEN", "", 0)>> ELSE <<>>)

\* an end of call that does not wait for the full batch
DiscriminatorEnd_Always(s) == DiscriminatorFullBatch(s)

\* line 411: if self._full_batch
DiscriminatorEnd(s) == IF s.full_batch THEN DiscriminatorFullBatch(s) ELSE <<>>

\* lines 356-358
DiscriminatorModes ==
    <<I("eval", "generator", "", 0), I("train", "critics", "", 0),
      I("train", "discriminators", "", 0)>>

\* lines 389-391
ExtendBatchUnlessThree == <<I("extend", "batch", "", 3)>>

discriminator_critic_train_step(s, in) ==
    DiscriminatorModes
    \o get_discriminator_critic_inputs(in)
    \o (IF config.use_discriminator /\ first_of_mini_batches(s)
        THEN DiscriminatorPart(s, in) ELSE <<>>)
    \o (IF config.use_critic THEN CriticPart(s, in) ELSE <<>>)
    \o ExtendBatchUnlessThree
    \o (IF config.tex_use_critic THEN TextureCriticPart(s, in) ELSE <<>>)
    \o (IF config.tex_use_discriminator /\ first_of_mini_batches(s)
        THEN TextureDiscriminatorPart(s, in) ELSE <<>>)
    \o DiscriminatorEnd(s)

\* a counter that is never reset
CountBatch_NoReset(m) ==
    LET c == m.batches_accumulated + 1
    IN  [m EXCEPT !.total_train_step_count = @ + 1,
                  !.batches_accumulated = c,
                  !.full_batch =
                        IF c = config.accumulate_grad_batches THEN TRUE ELSE @]

\* ------------------------------------------------------- training_step
\* lines 268-272
CountBatch(m) ==
    LET c == m.batches_accumulated + 1
    IN  [m EXCEPT !.total_train_step_count = @ + 1,
                  !.batches_accumulated =
                        IF c = config.accumulate_grad_batches THEN 0 ELSE c,
                  !.full_batch =
                        IF c = config.accumulate_grad_batches THEN TRUE ELSE @]

\* an end of step that leaves the gradients where they are
EndOfStep_NoClear(s) == <<I("full_batch_false", "", "", 0)>>

\* an end of step that clears the gradients after every call
EndOfStep_Always(s) ==
    <<I("zero_grad", "model", "", 0), I("full_batch_false", "", "", 0)>>

\* lines 278-280
EndOfStep(s) ==
    (IF s.full_batch THEN <<I("zero_grad", "model", "", 0)>> ELSE <<>>)
    \o <<I("full_batch_false", "", "", 0)>>

\* lines 263-264: self.train(), then the baseline depth model's
\* batch-normalization layers are frozen
TrainingModes ==
    <<I("train", "self", "", 0), I("freeze_batchnorm", "depth_model", "", 0)>>

\* lines 261-280, entered in state m on a batch whose loss terms evaluate to in
training_step(m, in) ==
    LET s == [CountBatch(m) EXCEPT !.batch = in.generated]
    IN  Run(s,
            TrainingModes
            \o (IF s.generator_training
             THEN generator_train_step(s, in)
             ELSE discriminator_critic_train_step(s, in))
            \o EndOfStep(s),
            1)

\* --------------------------------------------------- resume at setup
\* lines 109-117 / 119-127: the dummy outputs go through the heads of a bank
ResumeHeads(bank) ==
    (IF config.use_feature_level
     THEN Flatten([j \in 1..FeatureHeads(DiscriminatorKeys(config)) |->
                     <<I("lookup", bank, "features", 0),
                       I("head", bank, "features", j - 1)>>])
     ELSE <<>>)
    \o <<I("lookup", bank, "depth_image", 0), I("head", bank, "depth_image", 0)>>
    \o (IF config.predict_normals
        THEN <<I("lookup", bank, "phong", 0), I("head", bank, "phong", 0),
               I("lookup", bank, "depth_phong", 0), I("head", bank, "depth_phong", 0),
               I("lookup", bank, "normals", 0), I("head", bank, "normals", 0)>>
        ELSE <<>>)

\* lines 102-129: one dummy forward pass, len(self.discriminators['features'])
\* for the slice of the encoder outputs, the heads, then load_state_dict
_resume_from_checkpoint ==
    <<I("forward", get_predictions(TRUE), "", -1),
      I("lookup", "discriminators", "features", 0)>>
    \o (IF config.use_discriminator
        THEN ResumeHeads("discriminators") ELSE <<>>)
    \o (IF config.use_critic
        THEN ResumeHeads("critics") ELSE <<>>)
    \o <<I("load_state_dict", "", "", 0)>>

\* ------------------------------------------------------- observation
LossDicts == {"generator_losses", "discriminator_losses", "critic_losses",
              "texture_critic_losses"}

ZeroSums(keys) == [k \in keys |-> 0]

NoSums ==
    [d \in LossDicts |->
        ZeroSums(DOMAIN (CASE d = "generator_losses" -> InitGeneratorLosses(config)
                         [] d = "discriminator_losses" -> InitDiscriminatorLosses(config)
                         [] d = "critic_losses" -> InitCriticLosses(config)
                         [] OTHER -> InitTextureCriticLosses(config)))]

\* replay of a call's operations: per dictionary and key the sum added since
\* the dictionary was last logged, and the sums each log found; the texture
\* generator's critic dictionary is logged with self.critic_losses
RECURSIVE Replay(_, _, _)
Replay(tr, i, st) ==
    IF i > Len(tr) THEN st
    ELSE LET e == tr[i]
         IN  Replay(tr, i + 1,
                CASE e.op = "acc" ->
                        [st EXCEPT !.sums[e.tgt][e.key] = @ + e.val]
                  [] e.op = "log" /\ e.tgt = "critic_losses" ->
                        [st EXCEPT
                            !.atFlush = [d \in LossDicts |->
                                IF d \in {"critic_losses", "texture_critic_losses"}
                                THEN st.sums[d] ELSE @[d]],
                            !.sums = [d \in LossDicts |->
                                IF d \in {"critic_losses", "texture_critic_losses"}
                                THEN ZeroSums(DOMAIN @[d]) ELSE @[d]]]
                  [] e.op = "log" ->
                        [st EXCEPT !.atFlush[e.tgt] = st.sums[e.tgt],
                                   !.sums[e.tgt] = ZeroSums(DOMAIN st.sums[e.tgt])]
                  [] OTHER -> st)

\* the record of a call: the phase and the counters it was entered with, its
\* position among the calls of its phase, the full-batch flag it ran with,
\* whether it returned, what it did, and the groups whose optimizers have
\* stepped since its phase began
NoCall ==
    [phase |-> "none", full_batch |-> FALSE, returned |-> FALSE,
     generator_global_step |-> -1, critic_global_step |-> 0, nthInPhase |-> 0,
     order |-> <<>>, predictions |-> <<>>, applied |-> {}, steppedInPhase |-> {},
     trace |-> <<>>, modes |-> <<>>, flushed |-> {}, logged |-> Self.logged,
     heads |-> {}, batch |-> FreshBatch, received |-> <<>>,
     atFlush |-> NoSums]

\* ----------------------------------------------------------- datasets
\* src/data/image_dataset.py.  A file is named by its position in files;
\* the item __getitem__ returns is named by the file it was read from.

\* what rng.permutation(np.linspace(0, n - 1, n)) can return
permutation(n) ==
    {p \in [1..n -> 0..(n - 1)] : \A i, j \in 1..n : p[i] = p[j] => i = j}

\* seq[idx] on a Python sequence of n elements: an index from -n to n - 1
\* is in range, a negative one counts from the end
InRange(idx, n) == -n <= idx /\ idx < n

Position(idx, n) == IF idx < 0 THEN n + idx ELSE idx

\* no __getitem__ call yet
NoGet == [called |-> FALSE, arg |-> 0, index |-> 0, item |-> 0, reset |-> FALSE]

\* no dataset: the state of data while the training model runs
NoDataset ==
    [kind |-> "none", n |-> 0, length |-> 0, randomize |-> FALSE,
     _rand_index |-> -1, _rand_buffer |-> <<>>, raised |-> "none",
     last |-> NoGet, served |-> <<>>]

\* EndlessDataset.__init__ (lines 13-18) on a wrapped dataset of n items
EndlessDatasets ==
    UNION {[kind : {"EndlessDataset"}, n : {n}, length : 1..MaxLength,
            randomize : {TRUE}, _rand_index : {-1},
            _rand_buffer : permutation(n), raised : {"none"},
            last : {NoGet}, served : {<<>>}] : n \in 1..MaxFiles}

\* ImageDataset.__init__ (lines 39-70) on n files: no buffer yet
ImageDatasets ==
    [kind : {"ImageDataset"}, n : 1..MaxFiles, length : {0},
     randomize : BOOLEAN, _rand_index : {-1}, _rand_buffer : {<<>>},
     raised : {"none"}, last : {NoGet}, served : {<<>>}]

\* __len__: the configured length of an EndlessDataset, len(self.files) of
\* an ImageDataset
DatasetLen(d) == IF d.kind = "EndlessDataset" THEN d.length ELSE d.n

\* _reset_randomization with p the permutation the generator draws
_reset_randomization(d, p) ==
    [d EXCEPT !._rand_buffer = p, !._rand_index = -1]

\* a _get_random_index that resets one call later
_get_random_index_Late(d, p) ==
    LET e == [d EXCEPT !._rand_index = @ + 1]
        reset == e._rand_index = d.n + 1
    IN  [idx |-> d._rand_index, reset |-> reset,
         d |-> IF reset THEN _reset_randomization(e, p) ELSE e]

\* _get_random_index (lines 27-32 and 79-84): the index returned is the
\* counter as it was on entry; the counter then advances and, when it
\* reaches the length of the data, the randomization is reset
_get_random_index(d, p) ==
    LET e == [d EXCEPT !._rand_index = @ + 1]
        reset == e._rand_index = d.n
    IN  [idx |-> d._rand_index, reset |-> reset,
         d |-> IF reset THEN _reset_randomization(e, p) ELSE e]

\* data_files = self.files[idx] and the images read from them: the item of
\* the file at idx, an IndexError when idx is out of range; served lists
\* the items a randomizing dataset has returned since construction or its
\* last reset
ReadFiles(d, arg, idx, reset) ==
    IF InRange(idx, d.n)
    THEN [d EXCEPT !.last = [called |-> TRUE, arg |-> arg, index |-> idx,
                             item |-> Position(idx, d.n), reset |-> reset],
                   !.served = IF reset \/ ~d.randomize THEN <<>>
                              ELSE Append(@, Position(idx, d.n))]
    ELSE [d EXCEPT !.raised = "IndexError",
                   !.last = [called |-> TRUE, arg |-> arg, index |-> idx,
                             item |-> -1, reset |-> reset]]

\* ImageDataset.__getitem__ (lines 86-89)
ImageDataset_getitem(d, arg, p) ==
    LET r == _get_random_index(d, p)
    IN  IF d.randomize THEN ReadFiles(r.d, arg, r.idx, r.reset)
        ELSE ReadFiles(d, arg, arg, FALSE)

\* EndlessDataset.__getitem__ (lines 34-35): self.dataset[...] of the
\* wrapped dataset, an ImageDataset that does not randomize
EndlessDataset_getitem(d, arg, p) ==
    LET r == _get_random_index(d, p)
    IN  ReadFiles(r.d, arg, r.idx, r.reset)

\* ------------------------------------------------------------ actions
InitOn(configs) ==
    /\ config \in configs
    /\ phong_renderer = "None"
    /\ generator_losses = InitGeneratorLosses(config)
    /\ discriminator_losses = InitDiscriminatorLosses(config)
    /\ critic_losses = InitCriticLosses(config)
    /\ texture_critic_losses = InitTextureCriticLosses(config)
    /\ generator_global_step = -1
    /\ critic_global_step = 0
    /\ total_train_step_count = -1
    /\ batches_accumulated = 0
    /\ full_batch = FALSE
    /\ generator_training = FALSE
    /\ mode = AllInMode("train")
    /\ gradients = {}
    /\ IF config.resume_from_checkpoint
       THEN \E m \in {Run(Self, _resume_from_checkpoint, 1)} :
                /\ raised = m.raised
                /\ lastCall = [NoCall EXCEPT !.phase = "resume",
                                             !.returned = (m.raised = "none"),
                                             !.trace = m.trace]
       ELSE raised = "none" /\ lastCall = NoCall
    /\ calls = 0
    /\ callsInPhase = 0
    /\ sinceFlush = NoSums

\* the model as __init__ leaves it
Init == InitOn(Configs) /\ data = NoDataset

\* the same with a texture generator that brings the name g_loss
InitColliding == InitOn(CollidingConfigs) /\ data = NoDataset

\* the validation hook that creates the Phong renderer
on_validation_epoch_start ==
    /\ raised = "none"
    /\ phong_renderer' = IF config.predict_normals THEN "PhongRender" ELSE phong_renderer
    /\ UNCHANGED <<config, generator_losses, discriminator_losses, critic_losses,
                   texture_critic_losses, generator_global_step, critic_global_step,
                   total_train_step_count, batches_accumulated, full_batch,
                   generator_training, mode, gradients, raised, lastCall, calls,
                   callsInPhase, sinceFlush, data>>

\* one training_step call on a batch in of the set batches
TrainingStepOn(batches) ==
    /\ raised = "none"
    /\ calls < MaxCalls
    /\ \E in \in batches :
        \E m \in {training_step(Self, in)} :
        \E r \in {Replay(m.trace, 1, [sums |-> sinceFlush, atFlush |-> NoSums])} :
            /\ generator_losses' = m.generator_losses
            /\ discriminator_losses' = m.discriminator_losses
            /\ critic_losses' = m.critic_losses
            /\ texture_critic_losses' = m.texture_critic_losses
            /\ generator_global_step' = m.generator_global_step
            /\ critic_global_step' = m.critic_global_step
            /\ total_train_step_count' = m.total_train_step_count
            /\ batches_accumulated' = m.batches_accumulated
            /\ full_batch' = m.full_batch
            /\ generator_training' = m.generator_training
            /\ mode' = m.mode
            /\ gradients' = m.gradients
            /\ raised' = m.raised
            /\ lastCall' = [phase |-> IF generator_training THEN "GEN" ELSE "DISC",
                            full_batch |-> CountBatch(Self).full_batch,
                            returned |-> (m.raised = "none"),
                            generator_global_step |-> generator_global_step,
                            critic_global_step |-> critic_global_step,
                            nthInPhase |-> callsInPhase + 1,
                            order |-> in.order,
                            predictions |-> m.predictions,
                            applied |-> m.applied,
                            steppedInPhase |->
                                (IF callsInPhase = 0 THEN {}
                                 ELSE lastCall.steppedInPhase)
                                \cup {m.trace[i].key : i \in
                                        {j \in 1..Len(m.trace) :
                                            /\ m.trace[j].op = "step"
                                            /\ m.trace[j].tgt = "optimizer"}},
                            trace |-> m.trace,
                            modes |-> m.modes,
                            heads |-> m.heads,
                            batch |-> m.batch,
                            received |-> m.received,
                            flushed |-> m.flushed,
                            logged |-> m.logged,
                            atFlush |-> r.atFlush]
            /\ calls' = calls + 1
            /\ callsInPhase' = IF m.raised # "none" THEN callsInPhase
                               ELSE IF m.generator_training # generator_training THEN 0
                               ELSE callsInPhase + 1
            /\ sinceFlush' = r.sums
    /\ UNCHANGED <<config, phong_renderer, data>>

\* a validation step: self.eval(); what it caches and plots is not part of
\* the state
validation_step ==
    /\ raised = "none"
    /\ mode' = AllInMode("eval")
    /\ UNCHANGED <<config, phong_renderer, generator_losses, discriminator_losses,
                   critic_losses, texture_critic_losses, generator_global_step,
                   critic_global_step, total_train_step_count, batches_accumulated,
                   full_batch, generator_training, gradients, raised, lastCall,
                   calls, callsInPhase, sinceFlush, data>>

\* a training_step call on a batch with the generated source last
TrainingStep == TrainingStepOn(Inputs)

\* a training_step call on a batch with its keys in any order
TrainingStepAnyOrder == TrainingStepOn(AnyOrderInputs)

\* batches of which some are the object the previous call was given: its
\* generated-source list is as that call left it
ReusedInputs ==
    [loss : {1}, penalty : {1}, order : {AscendingOrder},
     generated : {FreshBatch, lastCall.batch}]

\* a training_step call on a new batch or on the previous one again
TrainingStepReusedBatch == TrainingStepOn(ReusedInputs)

Next == on_validation_epoch_start \/ validation_step \/ TrainingStep

Spec == Init /\ [][Next]_vars

NextReusedBatch ==
    on_validation_epoch_start \/ validation_step \/ TrainingStepReusedBatch

SpecReusedBatch == Init /\ [][NextReusedBatch]_vars

NextAnyOrder ==
    on_validation_epoch_start \/ validation_step \/ TrainingStepAnyOrder

\* the same model fed batches whose keys come in any order
SpecAnyOrder == Init /\ [][NextAnyOrder]_vars

\* a model that is constructed and left alone while a dataset is read
IdleConfigs ==
    {c \in Configs :
        /\ ~c.use_critic /\ ~c.use_discriminator /\ ~c.use_feature_level
        /\ ~c.predict_normals /\ ~c.tex_use_critic /\ ~c.tex_use_discriminator
        /\ c.num_sources = 0 /\ c.accumulate_grad_batches = 1
        /\ c.wasserstein_critic_updates = 1}

InitDataset == InitOn(IdleConfigs) /\ data \in EndlessDatasets \cup ImageDatasets

\* one __getitem__ call of the data loader on an EndlessDataset, with any
\* idx below its length
EndlessGetItem ==
    /\ data.kind = "EndlessDataset"
    /\ data.raised = "none"
    /\ \E arg \in 0..(DatasetLen(data) - 1) : \E p \in permutation(data.n) :
            data' = EndlessDataset_getitem(data, arg, p)
    /\ UNCHANGED modelVars

\* one __getitem__ call of the data loader on an ImageDataset
ImageGetItem ==
    /\ data.kind = "ImageDataset"
    /\ data.raised = "none"
    /\ \E arg \in 0..(DatasetLen(data) - 1) : \E p \in permutation(data.n) :
            data' = ImageDataset_getitem(data, arg, p)
    /\ UNCHANGED modelVars

NextDataset == EndlessGetItem \/ ImageGetItem

SpecDataset == InitDataset /\ [][NextDataset]_vars

\* the model as __init__ leaves it when it resumes from a checkpoint
InitResumed == InitOn(ResumedConfigs) /\ data = NoDataset

\* the same model resumed from a checkpoint at setup
SpecResumed == InitResumed /\ [][Next]_vars

\* the same model set up with a texture generator that brings a loss name
\* the outer model has too
SpecColliding == InitColliding /\ [][Next]_vars

\* =================================================================== claims
N == config.accumulate_grad_batches

W == config.wasserstein_critic_updates

PhaseNow == IF generator_training THEN "GEN" ELSE "DISC"

\* the last call changed the phase
Transitioned == calls > 0 /\ lastCall.phase # PhaseNow

\* the last call did op on the optimizer of the group
Did(op, group) ==
    \E i \in 1..Len(lastCall.trace) :
        /\ lastCall.trace[i].op = op
        /\ lastCall.trace[i].tgt = "optimizer"
        /\ lastCall.trace[i].key = group

SteppedAndCleared(group) == Did("step", group) /\ Did("zero_grad", group)

\* the number of discriminator groups, len(self.discriminators)
NumDiscriminatorGroups == Cardinality(DiscriminatorKeys(config))

\* the throttle expression of the last call, evaluated as the code does
\* after it advanced generator_global_step
ThrottleZero ==
    /\ NumDiscriminatorGroups # 0
    /\ (lastCall.generator_global_step + 2) % NumDiscriminatorGroups = 0

\* C1: for every window N >= 1, total_train_step_count grows by one per call
\* (it is the number of calls minus one), batches_accumulated stays in
\* 0..N-1 between calls, the full-batch flag was true during the last call
\* exactly when that call was a multiple-of-N-th call, and the flag is false
\* after every call that returned.
C1_Counters ==
    N >= 1 =>
        /\ total_train_step_count = calls - 1
        /\ batches_accumulated \in 0..(N - 1)
        /\ batches_accumulated = calls % N
        /\ calls > 0 => (lastCall.full_batch <=> calls % N = 0)
        /\ raised = "none" => ~full_batch

C1_Witness ==
    /\ N = 2 /\ calls = 4
    /\ lastCall.full_batch /\ lastCall.returned
    /\ ~full_batch /\ batches_accumulated = 0 /\ total_train_step_count = 3

\* the calls of one discriminator/critic cycle: N per critic update, and
\* wasserstein_critic_updates critic updates when the critics are in use
DiscCycle == N * (IF config.use_critic THEN W ELSE 1)

C3_DiscToGen ==
    /\ (lastCall.phase = "DISC" /\ generator_training)
          => /\ lastCall.returned
             /\ lastCall.full_batch
             /\ config.use_critic => (lastCall.critic_global_step + 1) % W = 0
    /\ (lastCall.phase = "DISC" /\ lastCall.returned /\ lastCall.full_batch
            /\ ~config.use_critic)
          => generator_training

\* a transition without critics on a call the cadence would not call last
C3_Witness ==
    /\ lastCall.phase = "DISC" /\ generator_training
    /\ ~config.use_critic /\ W = 2 /\ N = 2
    /\ (lastCall.critic_global_step + 1) % W # 0

\* C4, as stated: the phase changes from GEN to DISC only on a full-batch GEN
\* call on which the throttle is at zero, and that call steps and clears the
\* generator and the texture generator's generator optimizer, flushes the
\* generator log and advances generator_global_step by one.
C4_Original ==
    (lastCall.phase = "GEN" /\ Transitioned)
        => /\ lastCall.full_batch
           /\ ThrottleZero
           /\ SteppedAndCleared("generator")
           /\ SteppedAndCleared("texture_generator")
           /\ "generator_losses" \in lastCall.flushed
           /\ generator_global_step = lastCall.generator_global_step + 1

GeneratorStepped ==
    /\ SteppedAndCleared("generator")
    /\ SteppedAndCleared("texture_generator")
    /\ "generator_losses" \in lastCall.flushed

GeneratorTouched ==
    \/ Did("step", "generator") \/ Did("zero_grad", "generator")
    \/ Did("step", "texture_generator") \/ Did("zero_grad", "texture_generator")
    \/ "generator_losses" \in lastCall.flushed

\* C4, amended: the phase changes from GEN to DISC on every full-batch GEN call
\* that returns, and on no GEN call without the full-batch flag;
\* generator_global_step advances by one on exactly the calls that change the
\* phase; the two generator optimizers are stepped and cleared and the
\* generator log is flushed on exactly those of these calls on which the
\* throttle is at zero, and on the others none of that happens.
C4_GenToDisc ==
    lastCall.phase = "GEN"
        => /\ Transitioned => lastCall.full_batch
           /\ (lastCall.returned /\ lastCall.full_batch) => Transitioned
           /\ generator_global_step =
                lastCall.generator_global_step + (IF Transitioned THEN 1 ELSE 0)
           /\ (Transitioned /\ ThrottleZero) => GeneratorStepped
           /\ GeneratorTouched => (Transitioned /\ ThrottleZero)

\* the generator call on which the throttle lets the optimizers step
C4_Witness ==
    /\ lastCall.phase = "GEN" /\ Transitioned /\ ThrottleZero
    /\ GeneratorStepped
    /\ generator_global_step = NumDiscriminatorGroups - 1

\* C5: with generated source id 2, window 1, cadence 1 and discriminators and
\* critics in use, each of the first four calls returns, the calls run in the
\* phases DISC, GEN, DISC, GEN, critic_global_step does not decrease and
\* generator_global_step advances once every two calls.
C5_EndToEnd ==
    (/\ generated_source_id = 2
     /\ config.use_discriminator /\ config.use_critic
     /\ N = 1 /\ W = 1
     /\ phong_renderer # "None"
     /\ calls \in 1..4)
        => /\ lastCall.returned
           /\ lastCall.phase = (IF calls % 2 = 1 THEN "DISC" ELSE "GEN")
           /\ critic_global_step >= lastCall.critic_global_step
           /\ generator_global_step = (calls \div 2) - 1

\* C6: in one call each of generator_global_step and critic_global_step
\* stays or grows by one, and grows only if the call changed the phase.
C6_StepCounters ==
    calls > 0
        => /\ generator_global_step - lastCall.generator_global_step \in {0, 1}
           /\ critic_global_step - lastCall.critic_global_step \in {0, 1}
           /\ generator_global_step # lastCall.generator_global_step => Transitioned
           /\ critic_global_step # lastCall.critic_global_step => Transitioned

\* critic_global_step advanced through the texture generator's critic,
\* generator_global_step through an earlier generator window
C6_Witness ==
    /\ N = 2 /\ ~config.use_critic /\ config.tex_use_critic
    /\ critic_global_step = lastCall.critic_global_step + 1
    /\ critic_global_step = 2 /\ generator_global_step = 0
    /\ Transitioned

\* C7: without discriminators the throttle does not raise and every returning
\* full-batch GEN call steps the generator optimizer.
C7_ZeroDiscriminators ==
    (~config.use_discriminator /\ NumDiscriminatorGroups = 0)
        => /\ raised # "ZeroDivisionError"
           /\ (lastCall.phase = "GEN" /\ lastCall.full_batch /\ lastCall.returned)
                 => Did("step", "generator")

\* C8: with accumulate_grad_batches <= 0 no training_step call is made and
\* returns.
C8_WindowValidated ==
    N <= 0 => ~(calls > 0 /\ lastCall.returned)

Dict(d) == IF d = "generator_losses" THEN generator_losses ELSE discriminator_losses

\* C9: a flush of the generator or of the discriminator group logs, for every
\* entry of the group, the sum added since the previous flush divided by
\* accumulate_grad_batches, and leaves every entry of the group at 0.
C9_FlushAverages ==
    \A d \in {"generator_losses", "discriminator_losses"} :
        d \in lastCall.flushed
            => /\ DOMAIN lastCall.logged[d] = DOMAIN Dict(d)
               /\ \A k \in DOMAIN Dict(d) :
                    /\ RatEq(lastCall.logged[d][k], <<lastCall.atFlush[d][k], N>>)
                    /\ RatEq(Dict(d)[k], <<0, 1>>)

\* the values 2 and 4 of a window of two calls are logged as 6 / 2
C9_Witness ==
    /\ N = 2 /\ calls = 2
    /\ "discriminator_losses" \in lastCall.flushed
    /\ \E i \in 1..Len(lastCall.trace) :
         lastCall.trace[i] = I("acc", "discriminator_losses",
                               "d_loss_discriminator_depth_img", 4)
    /\ lastCall.atFlush.discriminator_losses["d_loss_discriminator_depth_img"] = 6
    /\ lastCall.logged.discriminator_losses["d_loss_discriminator_depth_img"] = <<6, 2>>
    /\ discriminator_losses["d_loss_discriminator_depth_img"] = <<0, 1>>

\* the number of times the last call logged the group
Logs(d) ==
    Cardinality({i \in 1..Len(lastCall.trace) :
                    lastCall.trace[i].op = "log" /\ lastCall.trace[i].tgt = d})

\* C10: a call that completes an accumulation window logs each group at most
\* once and leaves no group with sums that were not logged.
C10_OncePerWindow ==
    (N >= 1 /\ calls > 0 /\ lastCall.returned /\ lastCall.full_batch)
        => \A d \in {"generator_losses", "discriminator_losses", "critic_losses"} :
              /\ Logs(d) <= 1
              /\ \A k \in DOMAIN sinceFlush[d] : sinceFlush[d][k] = 0

\* C11: a critic flush logs every entry of the critic group, the outer
\* model's and the texture generator's, as the sum added since the previous
\* critic flush divided by accumulate_grad_batches, and leaves every such
\* entry at 0 in the dictionary it was accumulated into.
C11_CriticFlush ==
    "critic_losses" \in lastCall.flushed
        => /\ \A k \in DOMAIN texture_critic_losses :
                /\ RatEq(lastCall.logged.critic_losses[k],
                         <<lastCall.atFlush.texture_critic_losses[k], N>>)
                /\ RatEq(texture_critic_losses[k], <<0, 1>>)
           /\ \A k \in DOMAIN InitCriticLosses(config) :
                /\ RatEq(lastCall.logged.critic_losses[k],
                         <<lastCall.atFlush.critic_losses[k], N>>)
                /\ RatEq(critic_losses[k], <<0, 1>>)

\* the dictionary a statement of the last call addressed, as it is now
DictNow(d) ==
    CASE d = "generator_losses" -> generator_losses
      [] d = "discriminator_losses" -> discriminator_losses
      [] d = "critic_losses" -> critic_losses
      [] OTHER -> texture_critic_losses

\* the names registered in a dictionary during setup
Registered(d) ==
    DOMAIN (CASE d = "generator_losses" -> InitGeneratorLosses(config)
              [] d = "discriminator_losses" -> InitDiscriminatorLosses(config)
              [] d = "critic_losses" -> InitCriticLosses(config)
              [] OTHER -> InitTextureCriticLosses(config))

\* C12: an accumulation under a name the dictionary does not hold raises at
\* once (it is the last thing the call does, and the call does not return)
\* and creates no key; every accumulation that went through was under a name
\* the dictionary holds, and the generator and discriminator dictionaries
\* keep the key sets of setup.
C12_UnregisteredName ==
    /\ \A i \in 1..Len(lastCall.trace) :
         LET e == lastCall.trace[i]
         IN  /\ e.op = "KeyError"
                  => /\ i = Len(lastCall.trace)
                     /\ ~lastCall.returned /\ raised = "KeyError"
                     /\ e.key \notin DOMAIN DictNow(e.tgt)
             /\ e.op = "acc" => e.key \in DOMAIN DictNow(e.tgt)
    /\ DOMAIN generator_losses = Registered("generator_losses")
    /\ DOMAIN discriminator_losses = Registered("discriminator_losses")
    /\ DOMAIN texture_critic_losses = Registered("texture_critic_losses")

\* the critic step's accumulation under 'd_critics_loss' into the
\* discriminator dictionary, which does not hold that name
C12_Witness ==
    /\ raised = "KeyError"
    /\ lastCall.trace[Len(lastCall.trace)] =
            I("KeyError", "discriminator_losses", "d_critics_loss", 0)
    /\ "d_critics_loss" \notin DOMAIN discriminator_losses

\* the groups that have a named optimizer index; the generator's is the
\* literal 0 of line 346
Groups == {"generator", "critic", "discriminator", "texture_generator",
           "texture_critic", "texture_discriminator"}

NamedIndex(g, cfg) ==
    CASE g = "generator" -> 0
      [] g = "critic" -> critic_opt_idx(cfg)
      [] g = "discriminator" -> discriminators_opt_idx(cfg)
      [] g = "texture_generator" -> texture_generator_opt_idx(cfg)
      [] g = "texture_critic" -> texture_critic_opt_idx(cfg)
      [] OTHER -> texture_discriminator_opt_idx(cfg)

Enabled(g, cfg) ==
    CASE g = "critic" -> cfg.use_critic
      [] g = "discriminator" -> cfg.use_discriminator
      [] g = "texture_critic" -> cfg.tex_use_critic
      [] g = "texture_discriminator" -> cfg.tex_use_discriminator
      [] OTHER -> TRUE

Has(g, cfg) == \E i \in 1..Len(Optimizers(cfg)) : Optimizers(cfg)[i] = g

\* the 1-based list position of a group that is in the list
Pos(g, cfg) == CHOOSE i \in 1..Len(Optimizers(cfg)) : Optimizers(cfg)[i] = g

\* what both readings of the order share: the enabled groups, each once, the
\* generator first, the outer groups before the texture generator's, the
\* texture generator's in the order generator, critic, discriminator, and the
\* named index of every enabled group its list position
OrderBasics ==
    /\ \A g \in Groups : Has(g, config) <=> Enabled(g, config)
    /\ Len(Optimizers(config)) = Cardinality({g \in Groups : Enabled(g, config)})
    /\ Pos("generator", config) = 1
    /\ \A g \in {"critic", "discriminator"} :
         Has(g, config) => Pos(g, config) < Pos("texture_generator", config)
    /\ \A g \in {"texture_critic", "texture_discriminator"} :
         Has(g, config) => Pos("texture_generator", config) < Pos(g, config)
    /\ (Has("texture_critic", config) /\ Has("texture_discriminator", config))
         => Pos("texture_critic", config) < Pos("texture_discriminator", config)
    /\ \A g \in Groups :
         Enabled(g, config) => NamedIndex(g, config) + 1 = Pos(g, config)

\* C13, as stated: the list is in the order generator, discriminators,
\* critics, texture generator's generator, critic, discriminator, and each
\* named index of an enabled group is its list position.
C13_Original ==
    /\ OrderBasics
    /\ (Has("discriminator", config) /\ Has("critic", config))
         => Pos("discriminator", config) < Pos("critic", config)

\* C13, amended: as stated, but with the critics before the discriminators.
C13_OptimizerOrder ==
    /\ OrderBasics
    /\ (Has("discriminator", config) /\ Has("critic", config))
         => Pos("critic", config) < Pos("discriminator", config)

\* all six groups enabled
C13_Witness ==
    /\ Len(Optimizers(config)) = 6
    /\ critic_opt_idx(config) = 1 /\ discriminators_opt_idx(config) = 2
    /\ texture_generator_opt_idx(config) = 3
    /\ texture_discriminator_opt_idx(config) = 5

\* against the same configuration without critics, a configuration with
\* critics has one optimizer more and the named index of every enabled group
\* behind the critics is one higher
CriticShift ==
    config.use_critic
        => LET without == [config EXCEPT !.use_critic = FALSE]
           IN  /\ Len(Optimizers(without)) = Len(Optimizers(config)) - 1
               /\ \A g \in Groups \ {"generator", "critic"} :
                    Enabled(g, config)
                       => NamedIndex(g, without) = NamedIndex(g, config) - 1

\* C14, as stated: disabling the critics removes one optimizer and lowers
\* every later index by one; and in every configuration a named index that
\* lies within the list addresses the optimizer of its own group.
C14_Original ==
    /\ CriticShift
    /\ \A g \in Groups :
         NamedIndex(g, config) + 1 \in 1..Len(Optimizers(config))
            => Optimizers(config)[NamedIndex(g, config) + 1] = g

\* the groups whose optimizers are stepped after the backward pass of a loss
GroupsOfLoss(loss) ==
    CASE loss = "g_loss" -> {"generator", "texture_generator"}
      [] loss = "discriminator_loss" -> {"discriminator"}
      [] loss = "critic_loss" -> {"critic"}
      [] loss = "texture_critic_loss" -> {"texture_critic"}
      [] loss = "texture_discriminator_loss" -> {"texture_discriminator"}
      [] OTHER -> {}

IsOptimizerOp(e) == e.op \in {"step", "zero_grad"} /\ e.tgt = "optimizer"

\* the backward passes of the last call before its i-th event
BackwardsBefore(i) == {j \in 1..(i - 1) : lastCall.trace[j].op = "backward"}

\* the last of them
LastBackward(i) == CHOOSE j \in BackwardsBefore(i) : \A k \in BackwardsBefore(i) : k <= j

\* C14, amended: the shift as stated; the named index of every enabled group
\* lies within the list and addresses the optimizer of its own group; the
\* indices of disabled groups are not used: no call fails on an index, and
\* every optimizer a call steps or clears belongs to the group whose loss the
\* call last propagated backward.
C14_EnabledIndices ==
    /\ CriticShift
    /\ \A g \in Groups :
         Enabled(g, config)
            => /\ NamedIndex(g, config) + 1 \in 1..Len(Optimizers(config))
               /\ Optimizers(config)[NamedIndex(g, config) + 1] = g
    /\ raised # "IndexError"
    /\ \A i \in 1..Len(lastCall.trace) :
         IsOptimizerOp(lastCall.trace[i])
            => /\ BackwardsBefore(i) # {}
               /\ lastCall.trace[i].key
                    \in GroupsOfLoss(lastCall.trace[LastBackward(i)].tgt)

\* without critics and without a texture critic the discriminators' optimizer
\* is at 1 and the texture discriminator's at 3, and a call stepped both
C14_Witness ==
    /\ ~config.use_critic /\ config.use_discriminator
    /\ ~config.tex_use_critic /\ config.tex_use_discriminator
    /\ discriminators_opt_idx(config) = 1
    /\ texture_discriminator_opt_idx(config) = 3
    /\ Did("step", "discriminator") /\ Did("step", "texture_discriminator")

\* a backward pass or an addition to a loss dictionary
IsAccumulation(e) == e.op \in {"acc", "backward"}

\* the loss an accumulation belongs to
LossOf(e) ==
    IF e.op = "backward" THEN e.tgt
    ELSE CASE e.tgt = "generator_losses" -> "g_loss"
           [] e.tgt = "critic_losses" \/ e.key = "d_critics_loss" -> "critic_loss"
           [] e.tgt = "texture_critic_losses" -> "texture_critic_loss"
           [] e.tgt = "discriminator_losses"
                /\ e.key \in TexDiscriminatorLossNames(config)
                    -> "texture_discriminator_loss"
           [] OTHER -> "discriminator_loss"

\* the forward passes of a call come before all its accumulations
ForwardFirst ==
    \A i, j \in 1..Len(lastCall.trace) :
        (lastCall.trace[i].op = "forward" /\ IsAccumulation(lastCall.trace[j])) => i < j

\* C15, as stated: in a call the forward passes come before every
\* accumulation, and every accumulation comes before every optimizer step.
C15_Original ==
    /\ ForwardFirst
    /\ \A i, j \in 1..Len(lastCall.trace) :
        (IsAccumulation(lastCall.trace[i])
            /\ lastCall.trace[j].op = "step" /\ lastCall.trace[j].tgt = "optimizer")
                => i < j

\* C15, amended: in a call the forward passes come before every accumulation;
\* every optimizer step comes after a backward pass of a loss of its own
\* group and after every accumulation of the call that belongs to a loss of
\* its group.
C15_StageOrder ==
    /\ ForwardFirst
    /\ \A j \in 1..Len(lastCall.trace) :
        (lastCall.trace[j].op = "step" /\ lastCall.trace[j].tgt = "optimizer")
            => /\ \E i \in 1..(j - 1) :
                    /\ lastCall.trace[i].op = "backward"
                    /\ lastCall.trace[j].key \in GroupsOfLoss(lastCall.trace[i].tgt)
               /\ \A i \in 1..Len(lastCall.trace) :
                    (IsAccumulation(lastCall.trace[i])
                        /\ lastCall.trace[j].key
                            \in GroupsOfLoss(LossOf(lastCall.trace[i])))
                            => i < j

\* a discriminator step followed, in the same call, by the backward pass of
\* the texture critic's loss
C15_Witness ==
    \E i, j \in 1..Len(lastCall.trace) :
        /\ i < j
        /\ lastCall.trace[i].op = "step" /\ lastCall.trace[i].key = "discriminator"
        /\ lastCall.trace[j] = I("backward", "texture_critic_loss", "", 0)

IsStep(e) == e.op = "step" /\ e.tgt = "optimizer"

IsClearOf(e, group) == e.op = "zero_grad" /\ e.tgt = "optimizer" /\ e.key = group

\* C16, as stated: the event right after an optimizer's step() is the
\* zero_grad() of that optimizer.
C16_Original ==
    \A i \in 1..Len(lastCall.trace) :
        IsStep(lastCall.trace[i])
            => /\ i < Len(lastCall.trace)
               /\ IsClearOf(lastCall.trace[i + 1], lastCall.trace[i].key)

\* C16, amended: every step() is followed in the same call by the zero_grad()
\* of that optimizer, with nothing in between but step() and zero_grad() of
\* the other optimizers stepped with it; in a DISC call nothing at all is in
\* between; the generator step steps the generator's optimizer, then the
\* texture generator's, then clears them in that order.
C16_StepThenClear ==
    /\ \A i \in 1..Len(lastCall.trace) :
        IsStep(lastCall.trace[i])
            => \E j \in (i + 1)..Len(lastCall.trace) :
                /\ IsClearOf(lastCall.trace[j], lastCall.trace[i].key)
                /\ \A k \in (i + 1)..(j - 1) :
                     /\ IsOptimizerOp(lastCall.trace[k])
                     /\ lastCall.trace[k].key # lastCall.trace[i].key
                /\ lastCall.phase = "DISC" => j = i + 1
    /\ \A i \in 1..Len(lastCall.trace) :
        (IsStep(lastCall.trace[i]) /\ lastCall.phase = "GEN")
            => \E b \in 1..(Len(lastCall.trace) - 3) :
                /\ i \in {b, b + 1}
                /\ IsStep(lastCall.trace[b]) /\ lastCall.trace[b].key = "generator"
                /\ IsStep(lastCall.trace[b + 1])
                /\ lastCall.trace[b + 1].key = "texture_generator"
                /\ IsClearOf(lastCall.trace[b + 2], "generator")
                /\ IsClearOf(lastCall.trace[b + 3], "texture_generator")

\* a generator call whose first step() is followed by the other optimizer's step()
C16_Witness ==
    /\ lastCall.phase = "GEN" /\ lastCall.returned
    /\ \E b \in 1..Len(lastCall.trace) :
         /\ IsStep(lastCall.trace[b])
         /\ ~IsClearOf(lastCall.trace[b + 1], lastCall.trace[b].key)

\* C17: whenever a forward or a backward pass of a call runs, the
\* batch-normalization layers of the baseline depth model are in evaluation
\* mode; in a GEN call the discriminators and the critics are in
\* evaluation mode; in a DISC call the generator is in evaluation mode and
\* the discriminators and critics are in training mode.
C17_Modes ==
    \A i \in 1..Len(lastCall.modes) :
        LET md == lastCall.modes[i].mode
        IN  /\ md["depth_model_batchnorm"] = "eval"
            /\ lastCall.phase = "GEN"
                 => md["discriminators"] = "eval" /\ md["critics"] = "eval"
            /\ lastCall.phase = "DISC"
                 => /\ md["generator"] = "eval"
                    /\ md["discriminators"] = "train" /\ md["critics"] = "train"

\* a generator call entered after a discriminator call had left the
\* discriminators in training mode, whose forward and backward pass ran
C17_Witness ==
    /\ lastCall.phase = "GEN" /\ lastCall.returned
    /\ Len(lastCall.modes) = 2
    /\ lastCall.modes[1].at = "forward" /\ lastCall.modes[2].at = "backward"
    /\ lastCall.modes[2].mode["generator"] = "train"
    /\ lastCall.modes[2].mode["discriminators"] = "eval"
    /\ mode["depth_model_batchnorm"] = "eval"

\* the last call propagated the loss backward
Propagated(loss) ==
    \E i \in 1..Len(lastCall.trace) : lastCall.trace[i] = I("backward", loss, "", 0)

RECURSIVE AllReferences(_)
AllReferences(order) ==
    IF order = <<>> THEN <<>>
    ELSE (IF Head(order) = generated_source_id THEN <<>> ELSE <<Head(order)>>)
         \o AllReferences(Tail(order))

\* C19: whatever the order of the source ids in the batch mapping, the
\* 'real' term of the discriminator and critic loss is computed on the
\* concatenation of all source ids other than the generated one: with at
\* least one reference source the concatenation never fails, and every
\* concatenation made covers exactly the non-generated ids.
C19_RealTermSources ==
    /\ (generated_source_id > 0 => raised # "RuntimeError")
    /\ \A i \in 1..Len(lastCall.trace) :
         lastCall.trace[i].op = "cat" =>
            lastCall.trace[i].val = Mask(AllReferences(lastCall.order))

\* C20: with zero reference sources nothing is ever processed: no
\* training_step call changes a counter, no call returns, in every
\* configuration.
C20_ZeroReferencesRejected ==
    generated_source_id = 0 =>
        /\ total_train_step_count = -1
        /\ batches_accumulated = 0
        /\ ~(calls > 0 /\ lastCall.returned)

\* C21: a loss name that the outer model and the texture generator both
\* hold when the dictionaries are merged is a setup-time error: a model
\* with such a name is never set up, so never in any state.
C21_CollisionRejected ==
    /\ OuterGeneratorLossNames(config) \cap TexGeneratorLossNames(config) = {}
    /\ OuterDiscriminatorLossNames(config) \cap TexDiscriminatorLossNames(config) = {}

\* the source ids of a batch mapping
SourcesOf(order) == {order[i] : i \in 1..Len(order)}

\* the fields of a prediction record
PredictionFields ==
    {"color", "encoder_outs", "depth", "normals", "phong", "calculated_phong"}

\* C22: in every discriminator/critic call whose renderings did not fail,
\* the prediction cache holds one record for every source id of the batch,
\* each with all six fields; the record of the generated source id was
\* computed with the generator encoder, every other with the encoder of the
\* baseline depth model.
C22_PredictionCache ==
    (calls > 0 /\ lastCall.phase = "DISC" /\ raised # "TypeError") =>
        /\ DOMAIN lastCall.predictions = SourcesOf(lastCall.order)
        /\ \A id \in DOMAIN lastCall.predictions :
            /\ lastCall.predictions[id].fields = PredictionFields
            /\ lastCall.predictions[id].encoder =
                    (IF id = generated_source_id THEN "generator"
                     ELSE "depth_model.encoder")

\* a discriminator/critic call on a batch of two reference sources and the
\* generated source that returned, with a record computed by each encoder
C22_Witness ==
    /\ lastCall.phase = "DISC" /\ lastCall.returned
    /\ DOMAIN lastCall.predictions = {0, 1, 2}
    /\ lastCall.predictions[0].encoder = "depth_model.encoder"
    /\ lastCall.predictions[2].encoder = "generator"

\* the heads the configuration creates in a bank, a feature head by its
\* index, any other head by 0
EnabledHeads(bank) ==
    LET keys == IF bank = "critics" THEN CriticKeys(config)
                ELSE DiscriminatorKeys(config)
    IN  {<<k, 0>> : k \in keys \ {"features"}}
        \cup {<<"features", i>> : i \in 0..(FeatureHeads(keys) - 1)}

\* C24: a model constructed with resume_from_checkpoint comes out of its
\* constructor with the checkpoint loaded, after one dummy forward pass
\* through the network and through every enabled discriminator and critic
\* head, in every configuration (so no look-up of a head fails).
C24_DummyPassBeforeLoad ==
    (config.resume_from_checkpoint /\ calls = 0) =>
        /\ raised = "none"
        /\ lastCall.trace # <<>>
        /\ lastCall.trace[1].op = "forward"
        /\ lastCall.trace[Len(lastCall.trace)].op = "load_state_dict"
        /\ \A bank \in {"discriminators", "critics"} :
            \A h \in EnabledHeads(bank) :
                \E i \in 1..Len(lastCall.trace) :
                    lastCall.trace[i] = I("head", bank, h[1], h[2])

\* the entries the scheduler's own step methods add to (lines 340, 370, 381)
SchedulerTotals == {"g_loss", "d_discriminators_loss", "d_critics_loss"}

\* C25: the outer loss accumulators are written by the scheduler's step
\* methods only: every addition a call makes to generator_losses,
\* discriminator_losses or critic_losses is one of the scheduler's own
\* additions to a total; the loss helpers and the texture generator add to
\* no entry of these dictionaries.
C25_SchedulerOwnsAccumulators ==
    \A i \in 1..Len(lastCall.trace) :
        (lastCall.trace[i].op = "acc"
            /\ lastCall.trace[i].tgt
                \in {"generator_losses", "discriminator_losses", "critic_losses"})
                => lastCall.trace[i].key \in SchedulerTotals

\* the event clears the gradients of the generator and of the texture
\* generator's generator: self.zero_grad() on the whole model, or zero_grad()
\* on one of their optimizers
ClearsGeneratorGradients(e) ==
    /\ e.op = "zero_grad"
    /\ e.tgt = "model" \/ e.key \in {"generator", "texture_generator"}

\* C26: in a GEN call the gradients of the generator and of the texture
\* generator's generator are cleared only after the optimizer of the
\* generator and that of the texture generator's generator have stepped in
\* that call.
C26_NoGradientDropped ==
    lastCall.phase = "GEN" =>
        \A j \in 1..Len(lastCall.trace) :
            ClearsGeneratorGradients(lastCall.trace[j]) =>
                \A g \in {"generator", "texture_generator"} :
                    \E i \in 1..(j - 1) :
                        /\ lastCall.trace[i].op = "step"
                        /\ lastCall.trace[i].tgt = "optimizer"
                        /\ lastCall.trace[i].key = g

\* C27: in every configuration, every addition a training_step call makes
\* to a loss dictionary finds its name registered in that dictionary: no
\* call meets a missing loss key.
C27_LossNamesRegistered ==
    \A i \in 1..Len(lastCall.trace) :
        lastCall.trace[i].op \in {"acc", "KeyError"} =>
            /\ lastCall.trace[i].op = "acc"
            /\ lastCall.trace[i].key \in DOMAIN DictNow(lastCall.trace[i].tgt)

\* C28: on a GEN call the optimizer of the generator and that of the
\* texture generator's generator step if and only if the call is a
\* full-batch call and the number of generator windows completed, this one
\* included (generator_global_step + 1 after the increment), is a multiple
\* of the number of discriminator groups.
C28_ThrottledStep ==
    lastCall.phase = "GEN" =>
        \A g \in {"generator", "texture_generator"} :
            Did("step", g) <=>
                /\ lastCall.full_batch
                /\ NumDiscriminatorGroups # 0
                /\ (generator_global_step + 1) % NumDiscriminatorGroups = 0

\* the fifth generator window with five discriminator groups, one of them
\* the feature group of two networks: both optimizers step
C28_Witness ==
    /\ lastCall.phase = "GEN" /\ lastCall.full_batch /\ lastCall.returned
    /\ NumDiscriminatorGroups = 5 /\ generator_global_step = 4
    /\ FeatureHeads(DiscriminatorKeys(config)) = 2
    /\ Did("step", "generator") /\ Did("step", "texture_generator")

\* C29: a training_step call that runs without the full-batch flag steps
\* and clears no optimizer and no gradient, divides, logs and resets no loss
\* dictionary, and leaves the phase, generator_global_step and
\* critic_global_step as they were; total_train_step_count has advanced by
\* one.
C29_PartialWindowFrame ==
    (calls > 0 /\ ~lastCall.full_batch) =>
        /\ \A i \in 1..Len(lastCall.trace) :
              lastCall.trace[i].op
                 \notin {"step", "zero_grad", "divide", "critic_update", "log",
                          "reset", "inc", "phase"}
        /\ lastCall.flushed = {}
        /\ PhaseNow = lastCall.phase
        /\ generator_global_step = lastCall.generator_global_step
        /\ critic_global_step = lastCall.critic_global_step
        /\ total_train_step_count = calls - 1

\* the first call of a window of two, a discriminator/critic call that
\* propagated a loss backward, added to an accumulator and returned
C29_Witness ==
    /\ calls = 1 /\ N = 2 /\ ~lastCall.full_batch /\ lastCall.returned
    /\ batches_accumulated = 1
    /\ \E i, j \in 1..Len(lastCall.trace) :
         lastCall.trace[i].op = "backward" /\ lastCall.trace[j].op = "acc"

\* C30: the phase flag changes only during full-batch calls; between calls,
\* at the start of every accumulation window, no gradient is left in the
\* model; and every optimizer step of a call applies only gradients that
\* backward passes of the phase of that call produced.
C30_WindowInOnePhase ==
    /\ Transitioned => lastCall.full_batch
    /\ (raised = "none" /\ batches_accumulated = 0) => gradients = {}
    /\ lastCall.applied \subseteq {lastCall.phase}

\* a discriminator/critic call that closes a window of two and steps the
\* discriminator optimizer on the gradients of its own window, after a
\* generator window whose backward passes had left gradients
C30_Witness ==
    /\ lastCall.phase = "DISC" /\ lastCall.returned /\ lastCall.full_batch
    /\ N = 2 /\ generator_global_step = 0
    /\ Did("step", "discriminator")
    /\ lastCall.applied = {"DISC"}
    /\ gradients = {}

\* C31: no call fails on an optimizer index, and every optimizer a call
\* steps is the one created for the group whose loss the call has just
\* propagated backward, found at the named index of that group (0 for the
\* generator); the texture generator's optimizers are taken in the order
\* generator, critic, discriminator.
C31_NamedIndexStep ==
    /\ raised # "IndexError"
    /\ \A i \in 1..Len(lastCall.trace) :
         (lastCall.trace[i].op = "step" /\ lastCall.trace[i].tgt = "optimizer")
            => /\ BackwardsBefore(i) # {}
               /\ lastCall.trace[i].key
                    \in GroupsOfLoss(lastCall.trace[LastBackward(i)].tgt)
               /\ lastCall.trace[i].val = NamedIndex(lastCall.trace[i].key, config)

\* a generator call that stepped the texture generator's generator at
\* position 2, behind the generator and the discriminators
C31_Witness ==
    /\ lastCall.phase = "GEN" /\ lastCall.returned
    /\ Did("step", "texture_generator")
    /\ texture_generator_opt_idx(config) = 2
    /\ Optimizers(config)[3] = "texture_generator"

\* C32: with use_critic enabled, a window N >= 1, reference sources in the
\* batch and the Phong renderer in place, the phases run to their end: no
\* call fails, a DISC phase ends with its (W * N)-th call and a GEN phase
\* with its N-th, the critic optimizer steps on every full-batch DISC call
\* (W times a phase), the discriminator optimizer steps and the
\* discriminator log is flushed on the full-batch call of the first window
\* of the cadence only.
C32_CriticCadence ==
    (config.use_critic /\ N >= 1 /\ generated_source_id > 0
        /\ phong_renderer # "None" /\ calls > 0) =>
        /\ lastCall.returned
        /\ (lastCall.phase = "DISC" /\ Transitioned) => lastCall.nthInPhase = W * N
        /\ (lastCall.phase = "GEN" /\ Transitioned) => lastCall.nthInPhase = N
        /\ (lastCall.phase = "DISC" /\ lastCall.full_batch) => Did("step", "critic")
        /\ (Did("step", "discriminator")
               \/ "discriminator_losses" \in lastCall.flushed)
              => /\ lastCall.full_batch
                 /\ lastCall.critic_global_step % W = 0

\* C33: with use_discriminator enabled, when a DISC phase ends the
\* discriminator optimizer has stepped at least once since it began.
C33_DiscriminatorStepsEveryPhase ==
    (config.use_discriminator /\ lastCall.phase = "DISC" /\ Transitioned)
        => "discriminator" \in lastCall.steppedInPhase

\* the heads setup_discriminators and setup_critics created in a bank
CreatedHeads(bank) ==
    IF bank = "critics" THEN CriticKeys(config) ELSE DiscriminatorKeys(config)

\* the banks whose heads a call that returned has gone through: both in a
\* GEN call, in a DISC call the critics and, on the first mini-batch of the
\* cadence, the discriminators
BanksOfCall ==
    {b \in {"discriminators", "critics"} :
        /\ lastCall.returned
        /\ lastCall.phase \in {"GEN", "DISC"}
        /\ IF b = "critics" THEN config.use_critic ELSE config.use_discriminator
        /\ \/ lastCall.phase = "GEN"
           \/ b = "critics"
           \/ lastCall.critic_global_step % W = 0}

\* no look-up of a head that was not created
LookedUpWereCreated ==
    \A h \in lastCall.heads : h[2] \in CreatedHeads(h[1])

\* C34: every head a training call looks up was created at setup, and every
\* head created at setup, normals included, is looked up by the
\* discriminator/critic step that trains its bank and by the generator step.
C34_HeadsCreatedAndUsed ==
    /\ LookedUpWereCreated
    /\ \A b \in BanksOfCall :
            \A k \in CreatedHeads(b) : <<b, k>> \in lastCall.heads

\* the list a call has to hand to the texture sub-trainer: the images and
\* the depth and normals computed in that call
FreshList ==
    <<Entry("images", -1), Entry("depth", total_train_step_count),
      Entry("normals", total_train_step_count)>>

\* C35: every list the texture sub-trainer receives in a training_step call
\* has exactly the three entries images, depth, normals, the depth and
\* normals computed in that call, also when the batch object is one an
\* earlier call was given.
C35_TextureReceivesFreshTriple ==
    \A i \in 1..Len(lastCall.received) : lastCall.received[i] = FreshList

\* a dataset that ignores the idx it is given
Randomized == data.kind = "EndlessDataset" \/ data.randomize

\* C36: on an EndlessDataset or a randomizing ImageDataset of any length,
\* the item a __getitem__ call returns is the one at the internal index,
\* the counter the call advanced (or reset after the last position),
\* whatever idx it was given; that index is in range of the data and no
\* call fails with an IndexError.
C36_InternalIndexInRange ==
    (Randomized /\ data.last.called)
        => /\ data.raised = "none"
           /\ InRange(data.last.index, data.n)
           /\ data.last.index \in {data._rand_index - 1, data.n - 1}
           /\ data.last.item = Position(data.last.index, data.n)

\* a randomized call that was given an idx other than the position it read,
\* on an EndlessDataset shorter than its configured length, the index -1
C36_Witness ==
    /\ data.kind = "EndlessDataset"
    /\ data.n = 2 /\ data.length = 4
    /\ data.last.called
    /\ data.last.arg = 3
    /\ data.last.index = -1
    /\ data.last.item = 1

\* the items of the files in the order of the permutation buffer
BufferOrder == [i \in 1..data.n |-> data._rand_buffer[i]]

\* C37: once an EndlessDataset has served len(dataset) items since its
\* construction or its last reset, these are every element of the wrapped
\* dataset exactly once, in the order of the current permutation buffer.
C37_PermutationOrder ==
    (data.kind = "EndlessDataset" /\ Len(data.served) = data.n)
        => /\ \A f \in 0..(data.n - 1) :
                Cardinality({i \in 1..data.n : data.served[i] = f}) = 1
           /\ data.served = BufferOrder

====
